---- MODULE Spec2Model ----
(***************************************************************************)
(* Model of cmd/kaniko-ecr/main.go: one execution of run(c), the steps it  *)
(* takes (setupECRAuth, createRepository, uploadLifeCyclePolicy,           *)
(* uploadRepositoryPolicy, plugin.Exec) and what they do to the process    *)
(* environment, the docker config file and the ECR control-plane API.      *)
(***************************************************************************)
EXTENDS Naturals, Sequences, FiniteSets, TLC

VARIABLES
    c,              \* the parsed cli.Context: flags read by run
    pc,             \* position of run: the next step, or "done"
    environ,        \* process environment: the two AWS credential variables
    dockerConfig,   \* content of the file at dockerConfigPath
    environ0,       \* environ as it was when run started
    dockerConfig0,  \* dockerConfig as it was when run started
    writes,         \* log of attempted os.Setenv / ioutil.WriteFile calls
    apiCalls,       \* log of calls issued to the ECR control-plane API
    createErr,      \* createErr of createRepository (line 276), NotCalled before
    steps,          \* log of the steps run executed, with what each returned
    execCalls,      \* number of plugin.Exec invocations
    result,         \* error run returned / was terminated with ("nil" = success)
    exit            \* "running", "return" (run returned), "fatal" (logrus.Fatal)

vars == <<c, pc, environ, dockerConfig, environ0, dockerConfig0, writes,
          apiCalls, createErr, steps, execCalls, result, exit>>

----------------------------------------------------------------------------
\* Constants of the program (main.go lines 23-30)

accessKeyEnv == "AWS_ACCESS_KEY_ID"
secretKeyEnv == "AWS_SECRET_ACCESS_KEY"
dockerConfigPath == "/kaniko/.docker/config.json"
ecrPublicDomain == "public.ecr.aws"

----------------------------------------------------------------------------
\* Bounds and input domains

\* policy documents are opaque texts: 1..MaxPolicyText names the distinct ones
MaxPolicyText == 2
PolicyTexts == 1..MaxPolicyText

Registries ==
    { "",
      "public.ecr.aws",
      "public.ecr.aws/example-registry",
      "public.ecr.aw",
      "mirror.example.com/public.ecr.aws",
      "123456789012.dkr.ecr.us-east-1.amazonaws.com" }
Repos == {"", "app"}
AccessKeys == {"", "AKIAEXAMPLE"}
SecretKeys == {"", "s3cr3t"}

Unset == "<unset>"
NoFile == "<no file>"
EnvValues == {Unset, "previous-value"}
FileValues == {NoFile, "{\"auths\": {}}"}

\* errors: the nil error, an error satisfying errors.As(&smithy.APIError)
\* with its ErrorCode, and an error that is no smithy.APIError
NilErr == [kind |-> "nil", code |-> ""]
APIError(code) == [kind |-> "api", code |-> code]
NonAPIError(msg) == [kind |-> "other", code |-> msg]
NotCalled == [kind |-> "not called", code |-> ""]

\* what CreateRepository can answer
CreateErrs ==
    { NilErr,
      APIError("RepositoryAlreadyExistsException"),
      APIError("LimitExceededException"),
      APIError("InvalidParameterException"),
      NonAPIError("request send failed") }

\* what PutLifecyclePolicy / SetRepositoryPolicy can answer
CallErrs == {"nil", "RepositoryNotFoundException"}

\* what plugin.Exec can return
ExecErrs == {"nil", "exit status 1"}

Nil == "nil"

----------------------------------------------------------------------------
\* Helpers

\* strings.HasPrefix
HasPrefix(s, prefix) ==
    /\ Len(s) >= Len(prefix)
    /\ SubSeq(s, 1, Len(prefix)) = prefix

\* a classifier that compares instead of testing the prefix
isRegistryPublic_Equal(registry) == registry = ecrPublicDomain

isRegistryPublic(registry) == HasPrefix(registry, ecrPublicDomain)

\* errors.Wrap(err, msg) / fmt.Sprintf("...: %v", err)
Wrap(err, msg) == msg \o ": " \o err

\* auth set up only when pushing and credentials are defined
NeedsAuth_And(noPush, accessKey) == ~noPush /\ accessKey # ""

\* run, line 175: only setup auth when pushing or credentials are defined
NeedsAuth(noPush, accessKey) == ~noPush \/ accessKey # ""

\* run, line 182: only create repository when pushing and create-repository
NeedsCreate(noPush, createRepo) == ~noPush /\ createRepo

\* the keys exported as soon as one of them is given
ExportsCredentials_Either(accessKey, secretKey) == accessKey # "" \/ secretKey # ""

\* setupECRAuth, line 242: the keys are exported when both are given
ExportsCredentials(accessKey, secretKey) == accessKey # "" /\ secretKey # ""

\* a descriptor that names the registry host only
DockerConfigJSON_RegistryOnly(registry) ==
    "{\"credStore\": \"ecr-login\", \"credHelpers\": {\""
        \o registry \o "\": \"ecr-login\"}}"

\* setupECRAuth, line 254: the credential-helper descriptor
DockerConfigJSON(registry) ==
    "{\"credStore\": \"ecr-login\", \"credHelpers\": {\""
        \o ecrPublicDomain \o "\": \"ecr-login\", \""
        \o registry \o "\": \"ecr-login\"}}"

\* every API error fatal, "already exists" included
IsFatalCreateErr_AnyAPI(err) == err.kind = "api"

\* createRepository, line 290: the error of the create call is fatal
IsFatalCreateErr(err) ==
    err.kind = "api" /\ err.code # "RepositoryAlreadyExistsException"

----------------------------------------------------------------------------
\* The steps

\* what the operating system answers to the calls of setupECRAuth
AuthIO ==
    [ setenvAccess : BOOLEAN,
      setenvSecret : BOOLEAN,
      writeFile : {"ok", "open failed", "write failed"} ]

\* setupECRAuth checking the registry only when it builds the descriptor,
\* after the keys were exported
setupECRAuth_LateCheck(accessKey, secretKey, registry, env, file, io) ==
    LET export == accessKey # "" /\ secretKey # ""
        env2 == [env EXCEPT ![accessKeyEnv] = accessKey, ![secretKeyEnv] = secretKey]
        envOut == IF export THEN env2 ELSE env
        wOut == IF export
                THEN << [target |-> accessKeyEnv, ok |-> TRUE],
                        [target |-> secretKeyEnv, ok |-> TRUE] >>
                ELSE <<>>
    IN  IF registry = ""
        THEN [ err |-> "registry must be specified",
               environ |-> envOut, dockerConfig |-> file, writes |-> wOut ]
        ELSE [ err |-> Nil,
               environ |-> envOut,
               dockerConfig |-> "{\"credHelpers\": {\"" \o registry \o "\"}}",
               writes |-> Append(wOut, [target |-> dockerConfigPath, ok |-> TRUE]) ]

\* setupECRAuth(accessKey, secretKey, registry) on environment env and
\* docker config file, the system answering io: the error returned, the
\* environment and file afterwards, and the writes attempted in order
setupECRAuth(accessKey, secretKey, registry, env, file, io) ==
    LET export == ExportsCredentials(accessKey, secretKey)
        setAccess == [target |-> accessKeyEnv, ok |-> io.setenvAccess]
        setSecret == [target |-> secretKeyEnv, ok |-> io.setenvSecret]
        env1 == [env EXCEPT ![accessKeyEnv] = accessKey]
        env2 == [env1 EXCEPT ![secretKeyEnv] = secretKey]
        envOut == IF export THEN env2 ELSE env
        wOut == IF export THEN <<setAccess, setSecret>> ELSE <<>>
        writeFile == [target |-> dockerConfigPath, ok |-> io.writeFile = "ok"]
    IN  IF registry = ""
        THEN [ err |-> "registry must be specified",
               environ |-> env, dockerConfig |-> file, writes |-> <<>> ]
        ELSE IF export /\ ~io.setenvAccess
        THEN [ err |-> Wrap("invalid argument",
                            "failed to set " \o accessKeyEnv \o " environment variable"),
               environ |-> env, dockerConfig |-> file,
               writes |-> <<setAccess>> ]
        ELSE IF export /\ ~io.setenvSecret
        THEN [ err |-> Wrap("invalid argument",
                            "failed to set " \o secretKeyEnv \o " environment variable"),
               environ |-> env1, dockerConfig |-> file,
               writes |-> <<setAccess, setSecret>> ]
        ELSE IF io.writeFile = "ok"
        THEN [ err |-> Nil,
               environ |-> envOut, dockerConfig |-> DockerConfigJSON(registry),
               writes |-> Append(wOut, writeFile) ]
        ELSE [ err |-> Wrap(io.writeFile, "failed to create docker config file"),
               environ |-> envOut,
               \* O_TRUNC: a failed write leaves the file emptied, a failed
               \* open leaves it as it was
               dockerConfig |-> IF io.writeFile = "write failed" THEN "" ELSE file,
               writes |-> Append(wOut, writeFile) ]

\* one call to the ECR control plane
Call(op, api, repo, text) ==
    [op |-> op, api |-> api, repositoryName |-> repo, text |-> text]

\* the API surface createRepository and uploadRepositoryPolicy select
Surface(registry) == IF isRegistryPublic(registry) THEN "ecrpublic" ELSE "ecr"

\* createRepository without the check of repo
createRepository_NoRepoCheck(repo, registry, cfgOK, callErr) ==
    IF registry = ""
    THEN [err |-> "registry must be specified", calls |-> <<>>, createErr |-> NotCalled]
    ELSE IF ~cfgOK
    THEN [err |-> "failed to load aws config: no config",
          calls |-> <<>>, createErr |-> NotCalled]
    ELSE [ err |-> IF callErr.kind = "api"
                      /\ callErr.code # "RepositoryAlreadyExistsException"
                   THEN "failed to create repository: " \o callErr.code
                   ELSE Nil,
           calls |-> << [op |-> "CreateRepository", api |-> "ecr",
                         repositoryName |-> repo, text |-> 0] >>,
           createErr |-> callErr ]

\* createRepository(region, repo, registry), config.LoadDefaultConfig
\* succeeding iff cfgOK and the create call answering callErr: the error
\* returned, the calls issued and createErr
createRepository(repo, registry, cfgOK, callErr) ==
    IF registry = ""
    THEN [err |-> "registry must be specified", calls |-> <<>>, createErr |-> NotCalled]
    ELSE IF repo = ""
    THEN [err |-> "repo must be specified", calls |-> <<>>, createErr |-> NotCalled]
    ELSE IF ~cfgOK
    THEN [err |-> Wrap("no config", "failed to load aws config"),
          calls |-> <<>>, createErr |-> NotCalled]
    ELSE [ err |-> IF IsFatalCreateErr(callErr)
                   THEN Wrap(callErr.code, "failed to create repository")
                   ELSE Nil,
           calls |-> <<Call("CreateRepository", Surface(registry), repo, 0)>>,
           createErr |-> callErr ]

\* uploadLifeCyclePolicy(region, repo, lifecyclePolicy)
uploadLifeCyclePolicy(repo, lifecyclePolicy, cfgOK, callErr) ==
    IF ~cfgOK
    THEN [err |-> Wrap("no config", "failed to load aws config"), calls |-> <<>>]
    ELSE [ err |-> callErr,
           calls |-> <<Call("PutLifecyclePolicy", "ecr", repo, lifecyclePolicy)>> ]

\* uploadRepositoryPolicy(region, repo, registry, repositoryPolicy)
uploadRepositoryPolicy(repo, registry, repositoryPolicy, cfgOK, callErr) ==
    IF ~cfgOK
    THEN [err |-> Wrap("no config", "failed to load aws config"), calls |-> <<>>]
    ELSE [ err |-> callErr,
           calls |-> <<Call("SetRepositoryPolicy", Surface(registry), repo,
                            repositoryPolicy)>> ]

----------------------------------------------------------------------------
\* run

\* the two policy uploads in the other order
After_Swapped(step) ==
    CASE step = "setupECRAuth" -> "createRepository"
      [] step = "createRepository" -> "uploadRepositoryPolicy"
      [] step = "uploadRepositoryPolicy" -> "uploadLifeCyclePolicy"
      [] step = "uploadLifeCyclePolicy" -> "Exec"
      [] step = "Exec" -> "done"

\* the order of the steps of run (lines 174-233)
After(step) ==
    CASE step = "setupECRAuth" -> "createRepository"
      [] step = "createRepository" -> "uploadLifeCyclePolicy"
      [] step = "uploadLifeCyclePolicy" -> "uploadRepositoryPolicy"
      [] step = "uploadRepositoryPolicy" -> "Exec"
      [] step = "Exec" -> "done"

Step(name, err) == [name |-> name, err |-> err]

Contexts ==
    [ repo : Repos,
      registry : Registries,
      accessKey : AccessKeys,
      secretKey : SecretKeys,
      noPush : BOOLEAN,
      createRepository : BOOLEAN,
      lifecyclePolicySet : BOOLEAN,
      repositoryPolicySet : BOOLEAN ]

Init ==
    /\ c \in Contexts
    /\ pc = "setupECRAuth"
    /\ environ \in [{accessKeyEnv, secretKeyEnv} -> EnvValues]
    /\ dockerConfig \in FileValues
    /\ environ0 = environ
    /\ dockerConfig0 = dockerConfig
    /\ writes = <<>>
    /\ apiCalls = <<>>
    /\ createErr = NotCalled
    /\ steps = <<>>
    /\ execCalls = 0
    /\ result = Nil
    /\ exit = "running"

\* run returns err (main then ends the process with it)
Return(err) ==
    /\ pc' = "done"
    /\ result' = err
    /\ exit' = "return"

\* logrus.Fatal(err) inside run: the process ends there
Fatal(err) ==
    /\ pc' = "done"
    /\ result' = err
    /\ exit' = "fatal"

Continue ==
    /\ pc' = After(pc)
    /\ UNCHANGED <<result, exit>>

\* run, lines 174-179
RunSetupECRAuth ==
    /\ pc = "setupECRAuth"
    /\ IF NeedsAuth(c.noPush, c.accessKey)
       THEN \E io \in AuthIO :
              LET r == setupECRAuth(c.accessKey, c.secretKey, c.registry,
                                    environ, dockerConfig, io)
              IN  /\ environ' = r.environ
                  /\ dockerConfig' = r.dockerConfig
                  /\ writes' = writes \o r.writes
                  /\ steps' = Append(steps, Step("setupECRAuth", r.err))
                  /\ IF r.err # Nil THEN Return(r.err) ELSE Continue
       ELSE /\ Continue
            /\ UNCHANGED <<environ, dockerConfig, writes, steps>>
    /\ UNCHANGED <<c, environ0, dockerConfig0, apiCalls, createErr, execCalls>>

\* run, lines 181-186
RunCreateRepository ==
    /\ pc = "createRepository"
    /\ IF NeedsCreate(c.noPush, c.createRepository)
       THEN \E cfgOK \in BOOLEAN, callErr \in CreateErrs :
              LET r == createRepository(c.repo, c.registry, cfgOK, callErr)
              IN  /\ apiCalls' = apiCalls \o r.calls
                  /\ createErr' = r.createErr
                  /\ steps' = Append(steps, Step("createRepository", r.err))
                  /\ IF r.err # Nil THEN Return(r.err) ELSE Continue
       ELSE /\ Continue
            /\ UNCHANGED <<apiCalls, createErr, steps>>
    /\ UNCHANGED <<c, environ, dockerConfig, environ0, dockerConfig0, writes,
                   execCalls>>

\* run, lines 188-196
RunUploadLifeCyclePolicy ==
    /\ pc = "uploadLifeCyclePolicy"
    /\ IF c.lifecyclePolicySet
       THEN \/ \* ioutil.ReadFile fails
               /\ steps' = Append(steps, Step("uploadLifeCyclePolicy", "read failed"))
               /\ Fatal("read failed")
               /\ UNCHANGED apiCalls
            \/ \E contents \in PolicyTexts, cfgOK \in BOOLEAN, callErr \in CallErrs :
                 LET r == uploadLifeCyclePolicy(c.repo, contents, cfgOK, callErr)
                 IN  /\ apiCalls' = apiCalls \o r.calls
                     /\ steps' = Append(steps, Step("uploadLifeCyclePolicy", r.err))
                     /\ IF r.err # Nil
                        THEN Fatal(Wrap(r.err, "error uploading ECR lifecycle policy"))
                        ELSE Continue
       ELSE /\ Continue
            /\ UNCHANGED <<apiCalls, steps>>
    /\ UNCHANGED <<c, environ, dockerConfig, environ0, dockerConfig0, writes,
                   createErr, execCalls>>

\* run, lines 198-206
RunUploadRepositoryPolicy ==
    /\ pc = "uploadRepositoryPolicy"
    /\ IF c.repositoryPolicySet
       THEN \/ \* ioutil.ReadFile fails
               /\ steps' = Append(steps, Step("uploadRepositoryPolicy", "read failed"))
               /\ Fatal("read failed")
               /\ UNCHANGED apiCalls
            \/ \E contents \in PolicyTexts, cfgOK \in BOOLEAN, callErr \in CallErrs :
                 LET r == uploadRepositoryPolicy(c.repo, c.registry, contents,
                                                 cfgOK, callErr)
                 IN  /\ apiCalls' = apiCalls \o r.calls
                     /\ steps' = Append(steps, Step("uploadRepositoryPolicy", r.err))
                     /\ IF r.err # Nil
                        THEN Fatal(Wrap(r.err, "error uploading ECR lifecycle policy"))
                        ELSE Continue
       ELSE /\ Continue
            /\ UNCHANGED <<apiCalls, steps>>
    /\ UNCHANGED <<c, environ, dockerConfig, environ0, dockerConfig0, writes,
                   createErr, execCalls>>

\* run, lines 208-233: return plugin.Exec()
RunExec ==
    /\ pc = "Exec"
    /\ \E err \in ExecErrs :
         /\ execCalls' = execCalls + 1
         /\ steps' = Append(steps, Step("Exec", err))
         /\ pc' = After(pc)
         /\ result' = err
         /\ exit' = "return"
    /\ UNCHANGED <<c, environ, dockerConfig, environ0, dockerConfig0, writes,
                   apiCalls, createErr>>

Next ==
    \/ RunSetupECRAuth
    \/ RunCreateRepository
    \/ RunUploadLifeCyclePolicy
    \/ RunUploadRepositoryPolicy
    \/ RunExec

Spec == Init /\ [][Next]_vars

----------------------------------------------------------------------------
\* Reading the logs

Executed(name) == \E i \in DOMAIN steps : steps[i].name = name

\* what step `name` returned (Nil when it did not execute)
ErrOf(name) ==
    IF Executed(name)
    THEN (CHOOSE e \in {steps[i] : i \in DOMAIN steps} : e.name = name).err
    ELSE Nil

WritesTo(target) == {i \in DOMAIN writes : writes[i].target = target}

CallsOf(op) == {i \in DOMAIN apiCalls : apiCalls[i].op = op}

Rank(name) ==
    CASE name = "setupECRAuth" -> 1
      [] name = "createRepository" -> 2
      [] name = "uploadLifeCyclePolicy" -> 3
      [] name = "uploadRepositoryPolicy" -> 4
      [] name = "Exec" -> 5

AlreadyExists == APIError("RepositoryAlreadyExistsException")

ConfigErrors == {"registry must be specified", "repo must be specified"}

\* s starts with the characters of lit, compared one by one
StartsWithLiteral(s, lit) ==
    /\ Len(s) >= Len(lit)
    /\ \A i \in 1..Len(lit) : SubSeq(s, i, i) = SubSeq(lit, i, i)

----------------------------------------------------------------------------
\* C1: run executes setupECRAuth iff push is not suppressed or the access
\* key is non-empty; in a run with no-push and an empty access key the two
\* credential variables and the descriptor file are never written, whatever
\* the other options are.
ThmC1 ==
    /\ pc # "setupECRAuth" =>
         (Executed("setupECRAuth") <=> (~c.noPush \/ c.accessKey # ""))
    /\ (c.noPush /\ c.accessKey = "") =>
         /\ ~Executed("setupECRAuth")
         /\ environ = environ0
         /\ dockerConfig = dockerConfig0
         /\ writes = <<>>

WitC1 ==
    /\ pc = "done"
    /\ c.noPush /\ c.accessKey = "" /\ c.secretKey # "" /\ c.registry = ""
    /\ execCalls = 1
    /\ environ = environ0 /\ dockerConfig = dockerConfig0

\* C2: setupECRAuth with an empty registry returns its error before any
\* write, for every pair of keys: the credential variables and the file are
\* as before the call, and run returns that error with no registry call
\* issued and the builder not invoked.
ThmC2 ==
    (Executed("setupECRAuth") /\ c.registry = "") =>
        /\ environ = environ0
        /\ dockerConfig = dockerConfig0
        /\ writes = <<>>
        /\ pc = "done" /\ exit = "return"
        /\ result = "registry must be specified"
        /\ apiCalls = <<>>
        /\ execCalls = 0
        /\ Len(steps) = 1

WitC2 ==
    /\ Executed("setupECRAuth") /\ c.registry = ""
    /\ c.accessKey # "" /\ c.secretKey # ""
    /\ c.lifecyclePolicySet /\ c.repositoryPolicySet /\ c.createRepository
    /\ result = "registry must be specified"

\* C3 as stated: in every run where the registry host or the repository
\* name is empty, the run is aborted with a configuration error and no call
\* to the registry control plane is ever issued, for every combination of
\* the options (an earlier failure of another kind also counts as the abort).
OrigC3 ==
    (c.registry = "" \/ c.repo = "") =>
        /\ apiCalls = <<>>
        /\ pc = "done" => (result # Nil /\ execCalls = 0)

\* C3 amended: when the registry host is empty and credential setup is due
\* (push not suppressed or access key non-empty), or the repository name is
\* empty and createRepository executes, the run is aborted with the
\* configuration error and no call to the registry control plane is issued;
\* a configuration error is never preceded by a registry call.
ThmC3 ==
    /\ (c.registry = "" /\ (~c.noPush \/ c.accessKey # "") /\ pc # "setupECRAuth") =>
         /\ pc = "done" /\ exit = "return"
         /\ result = "registry must be specified"
         /\ apiCalls = <<>> /\ execCalls = 0
    /\ (c.repo = "" /\ Executed("createRepository")) =>
         /\ pc = "done" /\ exit = "return"
         /\ result = "repo must be specified"
         /\ apiCalls = <<>> /\ execCalls = 0
    /\ result \in ConfigErrors => (apiCalls = <<>> /\ execCalls = 0)

WitC3 ==
    /\ c.repo = "" /\ c.registry # ""
    /\ Executed("createRepository")
    /\ c.lifecyclePolicySet /\ c.repositoryPolicySet
    /\ result = "repo must be specified"

\* C4: when createRepository runs with non-empty repo and registry and a
\* loaded cloud config it issues exactly one create-repository call, and it
\* returns nil both when the call succeeds and when it fails with
\* RepositoryAlreadyExistsException, so the run goes on towards the builder.
ThmC4 ==
    (Executed("createRepository") /\ createErr # NotCalled) =>
        /\ c.repo # "" /\ c.registry # ""
        /\ Cardinality(CallsOf("CreateRepository")) = 1
        /\ createErr \in {NilErr, AlreadyExists} =>
             /\ ErrOf("createRepository") = Nil
             /\ pc = "done" => Len(steps) > Len(SelectSeq(steps,
                                   LAMBDA e : Rank(e.name) <= 2))
             /\ (pc = "done" /\ ~c.lifecyclePolicySet /\ ~c.repositoryPolicySet)
                   => execCalls = 1

WitC4 ==
    /\ Executed("createRepository")
    /\ createErr = AlreadyExists
    /\ pc = "done" /\ result = Nil /\ execCalls = 1

\* C5 as stated: once an executed step has failed (the create-repository
\* call of createRepository failing otherwise than with "already exists"
\* included) no later step is executed and the builder is never invoked; a
\* run ends in success only if the builder was invoked and returned no
\* error, and the builder's error is the run's result unchanged.
OrigC5 ==
    /\ \A i \in DOMAIN steps :
         (\/ steps[i].err # Nil
          \/ /\ steps[i].name = "createRepository"
             /\ createErr \notin {NotCalled, NilErr, AlreadyExists})
         => (i = Len(steps) /\ pc = "done"
             /\ (steps[i].name # "Exec" => execCalls = 0))
    /\ (pc = "done" /\ result = Nil) =>
         (execCalls = 1 /\ steps[Len(steps)] = Step("Exec", Nil))
    /\ Executed("Exec") => result = ErrOf("Exec")

\* C6: setupECRAuth with a non-empty registry exports the credentials
\* exactly when both keys are non-empty: then, after a successful call, the
\* two variables hold the supplied keys; if either key is empty neither
\* variable is touched, the descriptor is still written, and the call
\* succeeds when that write does.
ThmC6 ==
    (Executed("setupECRAuth") /\ c.registry # "") =>
        /\ (c.accessKey # "" /\ c.secretKey # "" /\ ErrOf("setupECRAuth") = Nil) =>
             /\ environ[accessKeyEnv] = c.accessKey
             /\ environ[secretKeyEnv] = c.secretKey
        /\ (c.accessKey = "" \/ c.secretKey = "") =>
             /\ environ = environ0
             /\ WritesTo(accessKeyEnv) = {} /\ WritesTo(secretKeyEnv) = {}
             /\ Cardinality(WritesTo(dockerConfigPath)) = 1
             /\ \A i \in WritesTo(dockerConfigPath) :
                  /\ writes[i].ok <=> ErrOf("setupECRAuth") = Nil
                  /\ writes[i].ok => dockerConfig # dockerConfig0

WitC6 ==
    /\ Executed("setupECRAuth") /\ ErrOf("setupECRAuth") = Nil
    /\ c.accessKey # "" /\ c.secretKey = ""
    /\ environ = environ0
    /\ dockerConfig # dockerConfig0

\* C7: a successful setupECRAuth with registry r writes the descriptor file
\* exactly once, replacing what the file held; the content names ecr-login
\* for the hosts public.ecr.aws and r and is determined by r alone.
ThmC7 ==
    (Executed("setupECRAuth") /\ ErrOf("setupECRAuth") = Nil) =>
        /\ dockerConfig =
             "{\"credStore\": \"ecr-login\", \"credHelpers\": {\"public.ecr.aws\": \"ecr-login\", \""
               \o c.registry \o "\": \"ecr-login\"}}"
        /\ Cardinality(WritesTo(dockerConfigPath)) = 1
        /\ \A i \in WritesTo(dockerConfigPath) : writes[i].ok

WitC7 ==
    /\ Executed("setupECRAuth") /\ ErrOf("setupECRAuth") = Nil
    /\ dockerConfig0 # NoFile
    /\ c.registry = "123456789012.dkr.ecr.us-east-1.amazonaws.com"
    /\ c.accessKey # "" /\ c.secretKey # ""
    /\ pc = "done"

\* C8: the create-repository and set-repository-policy calls go to the
\* public API iff the registry host starts with the literal public.ecr.aws,
\* otherwise to the private one; the put-lifecycle-policy call goes to the
\* private API only.
ThmC8 ==
    \A i \in DOMAIN apiCalls :
        /\ apiCalls[i].op \in {"CreateRepository", "SetRepositoryPolicy"} =>
             /\ apiCalls[i].api \in {"ecr", "ecrpublic"}
             /\ apiCalls[i].api = "ecrpublic"
                  <=> StartsWithLiteral(c.registry, "public.ecr.aws")
        /\ apiCalls[i].op = "PutLifecyclePolicy" => apiCalls[i].api = "ecr"

WitC8 ==
    /\ c.registry = "public.ecr.aws/example-registry"
    /\ CallsOf("CreateRepository") # {}
    /\ CallsOf("PutLifecyclePolicy") # {}
    /\ CallsOf("SetRepositoryPolicy") # {}

\* C9 as stated: if the create-repository call returns any error other than
\* the code RepositoryAlreadyExistsException, createRepository returns the
\* wrapped error and the run aborts with no policy uploaded and the builder
\* not invoked.
OrigC9 ==
    (Executed("createRepository")
        /\ createErr \notin {NotCalled, NilErr, AlreadyExists}) =>
        /\ ErrOf("createRepository")
             = "failed to create repository: " \o createErr.code
        /\ pc = "done"
        /\ CallsOf("PutLifecyclePolicy") = {}
        /\ CallsOf("SetRepositoryPolicy") = {}
        /\ execCalls = 0

\* C10: the steps that execute occur in the order credential setup, create
\* repository, lifecycle policy, repository policy, builder, each at most
\* once; each credential variable and the descriptor file is written at
\* most once, no call is issued twice, and the builder is invoked exactly
\* once in every finished run in which no earlier step failed.
ThmC10 ==
    /\ \A i, j \in DOMAIN steps :
         i < j => Rank(steps[i].name) < Rank(steps[j].name)
    /\ \A t \in {accessKeyEnv, secretKeyEnv, dockerConfigPath} :
         Cardinality(WritesTo(t)) <= 1
    /\ \A op \in {"CreateRepository", "PutLifecyclePolicy", "SetRepositoryPolicy"} :
         Cardinality(CallsOf(op)) <= 1
    /\ execCalls <= 1
    /\ execCalls = Cardinality({i \in DOMAIN steps : steps[i].name = "Exec"})
    /\ (pc = "done"
          /\ \A i \in DOMAIN steps : steps[i].name # "Exec" => steps[i].err = Nil)
         => execCalls = 1

WitC10 ==
    /\ pc = "done"
    /\ Len(steps) = 5
    /\ execCalls = 1
    /\ Cardinality(WritesTo(accessKeyEnv)) = 1

====
